---------------------------- MODULE Spec2Model ----------------------------
(***************************************************************************)
(* Material requirements calculation (bill-of-materials explosion) of the  *)
(* repository akozachkov/MaterialRequirementsCalculations.                 *)
(*                                                                         *)
(* Two scripts are modelled:                                               *)
(*   "mrc"  material_requirements_calculations.py together with the        *)
(*          reader of process_product_data.py (ProductTableReaderWriter),  *)
(*   "mrp"  material_requirements_planning.py (MaterialRequirementsPlanning)*)
(* and, as "mrc_threads", two threads that call calculateBOM on one        *)
(* MaterialRequirementsCalculations object, with the ndarrays that         *)
(* np.zeros allocates held in a store and named by their addresses.        *)
(*                                                                         *)
(* Numbers.  The code computes with IEEE doubles.  The model computes on   *)
(* a decimal grid: every number is an integer count of millionths, so      *)
(* 1.0 is Unit, 100.0 is Hundred and the tolerance 1e-6 is 1.  A product   *)
(* followed by the division by 100.0 is rounded to the nearest grid point  *)
(* (MulPct), as a double operation is rounded to the nearest double; sums  *)
(* of grid numbers are exact.                                              *)
(*                                                                         *)
(* Indices.  Python rows and columns count from 0, sequences here from 1:  *)
(* Python cell [i, j] is table[i + 1][j + 1].  Operators that mirror an    *)
(* index computation of the code take and return Python indices.           *)
(***************************************************************************)
EXTENDS Integers, Sequences, FiniteSets, TLC

(***************************************************************************)
(* Bounds of the model                                                     *)
(***************************************************************************)
\* most mixes (columns) of an enumerated table
MaxMixes == 2
\* most ingredients (rows) of an enumerated table
MaxRows == 3
\* enumerated target amounts are 1.0 .. MaxTarget
MaxTarget == 2

(***************************************************************************)
(* Numbers                                                                 *)
(***************************************************************************)
Unit == 10^6
Hundred == 100 * Unit
\* atol=1e-6 of the np.isclose calls
ATol == 1
\* rtol of np.isclose when the caller passes none: 1e-05 = 1 / RTolInv
RTolInv == 100000
\* material_requirements_calculations.py: DEFAULT_TARGET_AMOUNT = 100.0
DEFAULT_TARGET_AMOUNT == 100 * Unit
\* target_amount = 1000.0 of both main()
ArticleTarget == 1000 * Unit

Abs(x) == IF x < 0 THEN -x ELSE x
Min(a, b) == IF a < b THEN a ELSE b

\* Limb of the split multiplication below (Hundred = Limb * Limb).
Limb == 10^4

\* x * p / 100.0 rounded to the nearest grid point (ties away from 0).
\* The product is formed limb by limb to stay inside TLC's 32-bit integers.
MulPctExact(x, p) ==
    LET sgn == IF (x < 0) = (p < 0) THEN 1 ELSE -1
        ax  == Abs(x)
        ap  == Abs(p)
        xh  == ax \div Limb
        xl  == ax % Limb
        ph  == ap \div Limb
        pl  == ap % Limb
        mid == xh * pl + xl * ph
        rem == (mid % Limb) * Limb + xl * pl
    IN  sgn * (xh * ph + mid \div Limb + (rem + Hundred \div 2) \div Hundred)

MulPct(x, p) == MulPctExact(x, p)

\* sum of the entries of a sequence, left to right
RECURSIVE SumSeq(_)
SumSeq(s) == IF s = << >> THEN 0 ELSE SumSeq(SubSeq(s, 1, Len(s) - 1)) + s[Len(s)]

(***************************************************************************)
(* Tables                                                                  *)
(***************************************************************************)
NRows(table) == Len(table)
NCols(table) == Len(table[1])
Column(table, j) == [i \in 1..NRows(table) |-> table[i][j]]
Zeros(n, m) == [i \in 1..n |-> [j \in 1..m |-> 0]]

\* create_example_table: Table 1 of the article, in percent
ExampleRows ==
    << <<10,  0, 25,  0>>,
       <<20,  0,  0, 20>>,
       << 0, 50,  0, 25>>,
       << 0,  0, 25,  5>>,
       <<70, 30,  0,  0>>,
       << 0, 20, 25, 20>>,
       << 0,  0, 25, 10>>,
       << 0,  0,  0, 20>>,
       << 0,  0,  0,  0>> >>

ArticleTable == [i \in 1..9 |-> [j \in 1..4 |-> ExampleRows[i][j] * Unit]]

\* main of material_requirements_planning.py: expected_mix1 .. expected_mix4,
\* the columns of the article's result for the target 1000
ExpectedMixes ==
    << <<28,  56,   0,  0, 196, 280,   0,   0,    0>>,
       << 0,   0,  75,  0,  45,  30, 150,   0,    0>>,
       <<50,   0,   0, 50,   0,  50,  50, 200,    0>>,
       << 0, 200, 250, 50,   0, 200, 100, 200, 1000>> >>

\* "abs(exp - act) < 0.1" of main's verification, for column j
MatchesArticle(A, j) ==
    \A i \in 1..9 : Abs(ExpectedMixes[j][i] * Unit - A[i][j]) < Unit \div 10

(***************************************************************************)
(* Enumerated input tables.  A column is a recipe (its non-zero cells,     *)
(* top to bottom) placed on rows.  A regular column satisfies invariants   *)
(* A and B exactly: it sums to 100 and uses only rows above the mix's own  *)
(* row.  One column of a table is arbitrary: any recipe on any rows.       *)
(***************************************************************************)
RegularRecipes == { <<Hundred>>, <<25 * Unit, 75 * Unit>> }

OtherRecipes ==
    { <<Hundred + 1>>,                      \* 100.000001
      <<Hundred + 500>>,                    \* 100.0005
      <<Hundred + 2000>>,                   \* 100.002
      <<95 * Unit>>,                        \* 95
      <<110 * Unit, -10 * Unit>>,           \* a negative percentage
      <<25 * Unit + 25, 75 * Unit - 25>> }  \* 25.000025 + 74.999975 = 100

Placed(n, rows, r) ==
    IF Len(r) = 1
    THEN { [i \in 1..n |-> IF i = a THEN r[1] ELSE 0] : a \in rows }
    ELSE { [i \in 1..n |-> IF i = ab[1] THEN r[1] ELSE IF i = ab[2] THEN r[2] ELSE 0] :
             ab \in { x \in rows \X rows : x[1] < x[2] } }

ColumnsOn(n, rows, recipes) == UNION { Placed(n, rows, r) : r \in recipes }

\* regular columns of mix j (1-based) of an n x m table
RegularColumns(n, m, j) == ColumnsOn(n, 1..(n - m + j - 1), RegularRecipes)
AnyColumns(n) == ColumnsOn(n, 1..n, RegularRecipes \cup OtherRecipes)

FromColumns(n, m, cols) == [i \in 1..n |-> [j \in 1..m |-> cols[j][i]]]

TablesOfShape(n, m) ==
    { FromColumns(n, m, cols) :
        cols \in { c \in [1..m -> AnyColumns(n)] :
                     \E free \in 1..m :
                        \A j \in (1..m) \ {free} : c[j] \in RegularColumns(n, m, j) } }

Shapes == { nm \in (1..MaxRows) \X (1..MaxMixes) : nm[1] > nm[2] }

\* two raw materials and two mixes: the finished product is all Mix 1, and
\* Mix 1 has percentages (25.000025 and 74.999975, together exactly 100)
\* whose products with an amount are not all grid numbers, as the products
\* of 0.1 and 99.9 with an amount are not all doubles
RoundingTable ==
    << <<25 * Unit + 25, 0>>,
       <<75 * Unit - 25, 0>>,
       <<0, Hundred>>,
       <<0, 0>> >>

InputTables ==
    UNION { TablesOfShape(nm[1], nm[2]) : nm \in Shapes } \cup {ArticleTable, RoundingTable}

Targets(table) ==
    { t * Unit : t \in 1..MaxTarget } \cup
    (IF table = ArticleTable THEN {ArticleTarget} ELSE {})


(***************************************************************************)
(* TableValidator                                                          *)
(***************************************************************************)
\* np.isclose(a, b, atol=atol): abs(a - b) <= atol + rtol * abs(b)
isclose(a, b, atol) == Abs(a - b) <= atol + Abs(b) \div RTolInv

\* np.sum(column[column != 0])
NonZeroSum(table, j) ==
    LET column == Column(table, j)
    IN  SumSeq(SelectSeq(column, LAMBDA c : c # 0))

\* MaterialRequirementsPlanning.validate_percentage_table, the value returned.
\* Every table of the model is 2-dimensional, so the ndim test passes.
validate_percentage_table(table) ==
    \A j \in 1..NCols(table) : isclose(NonZeroSum(table, j), Hundred, ATol)

\* ProductTableReaderWriter._validate_percentage_table, the value returned
_validate_percentage_table(table) ==
    \A j \in 1..NCols(table) : isclose(NonZeroSum(table, j), Hundred, ATol)

\* "if not <validator>: raise ValueError("Invalid percentage table")" of read()
\* and of calculate_material_requirements
\* (variant: the verdict of the validator is ignored and nothing is raised)
RaisesNever(valid) == FALSE

RaisesInvalidTable(valid) == ~ valid

\* the counts both validators derive from the shape
ShapeCounts(table) ==
    [raw_materials_count |-> NRows(table) - NCols(table),
     mixes_count         |-> NCols(table),
     total_rows          |-> NRows(table),
     total_cols          |-> NCols(table)]

(***************************************************************************)
(* Product file of the reader: header row of mix names, then one row per   *)
(* ingredient, raw materials first and the mixes after them.               *)
(***************************************************************************)
MixNames(m) == [j \in 1..m |-> <<"Mix", j>>]
IngredientNames(n, m) ==
    [i \in 1..n |-> IF i <= n - m THEN <<"Raw Material", i>> ELSE <<"Mix", i - (n - m)>>]

\* read(): raw_material_names are the ingredient names that are no mix names
RawMaterialNames(ingredient_names, mix_names) ==
    SelectSeq(ingredient_names,
              LAMBDA name : \A j \in 1..Len(mix_names) : mix_names[j] # name)

(***************************************************************************)
(* Explosion: pieces of _calculate_material_requirements                   *)
(***************************************************************************)
\* target_amount * percentage_table[i, m-1] / 100.0 for every row i
LastMixColumn(P, target_amount) ==
    [i \in 1..NRows(P) |-> MulPct(target_amount, P[i][NCols(P)])]

\* (variant: step 1 does not test the sum)
LastMixUnchecked(mix_m_total, target_amount) == TRUE

\* the test of step 1: mix_m_total == target_amount
LastMixMatches(mix_m_total, target_amount) == mix_m_total = target_amount

\* (variant: the row of the mix after mix j is summed)
MixAmountOfNextRow(target_table, row) == SumSeq(target_table[row + 2])

\* sum(target_table[current_table_row_with_mix, :]), row as a Python index
MixAmountNeeded(target_table, row) == SumSeq(target_table[row + 1])

\* (variant: the row bound is taken from the column index alone)
RowsWrittenWithoutN(n, j, shape0) == Min(j + 1, shape0)

\* range(min(n+j+1, target_table.shape[0])): the number of rows written, j as
\* a Python index
RowsWritten(n, j, shape0) == Min(n + j + 1, shape0)

\* (variant: the percentages are read from the last column)
MixColumnOfLastMix(P, mix_j_amount, j, rows, old) ==
    [i \in 1..NRows(P) |->
        IF i <= rows THEN MulPct(mix_j_amount, P[i][NCols(P)]) ELSE old[i][j + 1]]

\* column j (Python index) of step 2, before the mix's own cell is set
MixColumn(P, mix_j_amount, j, rows, old) ==
    [i \in 1..NRows(P) |->
        IF i <= rows THEN MulPct(mix_j_amount, P[i][j + 1]) ELSE old[i][j + 1]]

\* table with column j (Python index) replaced
WithColumn(table, j, col) ==
    [i \in 1..NRows(table) |-> [table[i] EXCEPT ![j + 1] = col[i]]]

\* table with cell [i, j] (Python indices) set
WithCell(table, i, j, x) == [table EXCEPT ![i + 1][j + 1] = x]

(***************************************************************************)
(* Aggregator                                                              *)
(***************************************************************************)
\* np.sum(target_table[:count, :], axis=1) for count >= 0
RowSums(target_table, count) ==
    [i \in 1..Min(count, NRows(target_table)) |-> SumSeq(target_table[i])]

\* (variant: the slice is left out and every row is summed)
TotalsOfAllRows(target_table, raw_material_count) ==
    RowSums(target_table, NRows(target_table))

\* get_raw_material_totals of both classes
get_raw_material_totals(target_table, raw_material_count) ==
    RowSums(target_table, raw_material_count)

(***************************************************************************)
(* State                                                                   *)
(***************************************************************************)
VARIABLES
    script,       \* which script runs: "mrc" or "mrp"
    input_table,  \* the percentage table: the product file, or the caller's array
    mrc,          \* the MaterialRequirementsCalculations object
    frame,        \* the running call of _calculate_material_requirements
    last_bom,     \* outcome of the latest finished calculateBOM
    prev_bom,     \* outcome of the calculateBOM before it
    mrp,          \* the fields of the MaterialRequirementsPlanning object
    mrp_frame,    \* the running call of calculate_material_requirements
    target_table, \* the quantity table the caller of the mrp object holds
    mrp_ret,      \* the latest call on the mrp object and what it returned
    arrays,       \* "mrc_threads": the ndarrays allocated so far, by address
    calls         \* "mrc_threads": the call of calculateBOM of every thread

vars == <<script, input_table, mrc, frame, last_bom, prev_bom,
          mrp, mrp_frame, target_table, mrp_ret, arrays, calls>>

thread_vars == <<arrays, calls>>
mrc_vars == <<mrc, frame, last_bom, prev_bom, thread_vars>>
mrp_vars == <<mrp, mrp_frame, target_table, mrp_ret>>

NoBom == [status |-> "none", target_amount |-> 0, target_table |-> << >>,
          raw_material_totals |-> << >>]
IdleFrame == [pc |-> "idle", target_amount |-> 0, target_table |-> << >>,
              j |-> 0, current_table_row_with_mix |-> 0]
NoRet == [op |-> "none", target_amount |-> 0, result |-> "None", value |-> << >>]
MrpIdle == [pc |-> "idle", target_amount |-> 0]

\* the threads that share one MaterialRequirementsCalculations object,
\* numbered in the order in which they call calculateBOM
Threads == 1..2
\* a thread that has not called calculateBOM; target_table is an address
NoCall == [pc |-> "idle", target_amount |-> 0, target_table |-> 0,
           j |-> 0, current_table_row_with_mix |-> 0,
           raw_material_totals |-> << >>]

Init ==
    /\ script \in {"mrc", "mrp", "mrc_threads"}
    /\ input_table \in InputTables
    /\ mrc = [state |-> "new", percentage_table |-> << >>,
              raw_material_count |-> 0, mixes_count |-> 0, ingredient_count |-> 0]
    /\ frame = IdleFrame
    /\ last_bom = NoBom
    /\ prev_bom = NoBom
    /\ mrp = [raw_materials_count |-> 0, mixes_count |-> 0,
              total_rows |-> 0, total_cols |-> 0]
    /\ mrp_frame = MrpIdle
    /\ target_table = << >>
    /\ mrp_ret = NoRet
    /\ arrays = << >>
    /\ calls = [th \in Threads |-> NoCall]


(***************************************************************************)
(* Script "mrc": MaterialRequirementsCalculations                          *)
(***************************************************************************)
\* __init__: reader.read() parses the product file and validates it; a
\* rejected table raises ValueError and no object comes into being.
MrcConstruct ==
    /\ script \in {"mrc", "mrc_threads"}
    /\ mrc.state = "new"
    /\ LET n == NRows(input_table)
           m == NCols(input_table)
           ingredient_names   == IngredientNames(n, m)
           mix_names          == MixNames(m)
           raw_material_names == RawMaterialNames(ingredient_names, mix_names)
       IN  IF RaisesInvalidTable(_validate_percentage_table(input_table))
           THEN mrc' = [mrc EXCEPT !.state = "failed"]
           ELSE mrc' = [state              |-> "constructed",
                        percentage_table   |-> input_table,
                        raw_material_count |-> Len(raw_material_names),
                        mixes_count        |-> Len(mix_names),
                        ingredient_count   |-> Len(ingredient_names)]
    /\ UNCHANGED <<script, input_table, frame, last_bom, prev_bom, thread_vars, mrp_vars>>

\* calculateBOM(target_amount) enters _calculate_material_requirements: the
\* table is allocated and step 1 fills the last column and tests its sum.
MrcStep1(target_amount) ==
    /\ script = "mrc"
    /\ mrc.state = "constructed"
    /\ frame.pc = "idle"
    /\ LET P   == mrc.percentage_table
           n   == NRows(P)
           m   == NCols(P)
           col == LastMixColumn(P, target_amount)
           mix_m_total == SumSeq(col)
           filled == WithColumn(Zeros(n, m), m - 1, col)
       IN  IF LastMixMatches(mix_m_total, target_amount)
           THEN /\ frame' = [pc |-> "step2",
                             target_amount |-> target_amount,
                             target_table  |-> WithCell(filled, n - 1, m - 1, mix_m_total),
                             j |-> m - 2,
                             current_table_row_with_mix |-> n - 1]
                /\ UNCHANGED <<last_bom, prev_bom>>
           ELSE /\ frame' = IdleFrame
                /\ prev_bom' = last_bom
                /\ last_bom' = [status |-> "ValueError",
                                target_amount |-> target_amount,
                                target_table |-> << >>,
                                raw_material_totals |-> << >>]
    /\ UNCHANGED <<script, input_table, mrc, thread_vars, mrp_vars>>

\* one pass of the loop of step 2: column j, from m-2 down to 0
MrcStep2 ==
    /\ script = "mrc"
    /\ frame.pc = "step2"
    /\ frame.j >= 0
    /\ LET P   == mrc.percentage_table
           n   == NRows(P)
           j   == frame.j
           row == frame.current_table_row_with_mix - 1
           mix_j_amount == MixAmountNeeded(frame.target_table, row)
           rows == RowsWritten(n, j, NRows(frame.target_table))
           col == MixColumn(P, mix_j_amount, j, rows, frame.target_table)
           filled == WithColumn(frame.target_table, j, col)
       IN  frame' = [frame EXCEPT !.target_table = WithCell(filled, row, j, mix_j_amount),
                                  !.j = j - 1,
                                  !.current_table_row_with_mix = row]
    /\ UNCHANGED <<script, input_table, mrc, last_bom, prev_bom, thread_vars, mrp_vars>>

\* the loop is over: return target_table
MrcReturn ==
    /\ script = "mrc"
    /\ frame.pc = "step2"
    /\ frame.j < 0
    /\ frame' = [frame EXCEPT !.pc = "returned"]
    /\ UNCHANGED <<script, input_table, mrc, last_bom, prev_bom, thread_vars, mrp_vars>>

\* calculateBOM goes on: _get_results_string aggregates the returned table
MrcResults ==
    /\ script = "mrc"
    /\ frame.pc = "returned"
    /\ prev_bom' = last_bom
    /\ last_bom' = [status |-> "ok",
                    target_amount |-> frame.target_amount,
                    target_table |-> frame.target_table,
                    raw_material_totals |->
                        get_raw_material_totals(frame.target_table, mrc.raw_material_count)]
    /\ frame' = IdleFrame
    /\ UNCHANGED <<script, input_table, mrc, thread_vars, mrp_vars>>

(***************************************************************************)
(* Script "mrc_threads": threads calling calculateBOM on one object.  The  *)
(* locals of a call (target_amount, target_table, j,                      *)
(* current_table_row_with_mix) are the thread's own; target_table is a     *)
(* reference to an ndarray of the store.                                   *)
(***************************************************************************)
\* (variant: every call works in one buffer that is cleared and reused)
ReusedArray(store) == 1

\* np.zeros((n, m)): the address of the array it returns, a new one
NewArray(store) == Len(store) + 1

\* the store after the array at address a has become the table A
Stored(store, a, A) ==
    IF a = Len(store) + 1 THEN Append(store, A) ELSE [store EXCEPT ![a] = A]

\* step 1 on a table of zeros: the last column and the mix's own cell
\* (target_table[i, m-1] = mix_m_total with i left at n-1 by the loop)
Step1Table(P, target_amount) ==
    LET n   == NRows(P)
        m   == NCols(P)
        col == LastMixColumn(P, target_amount)
    IN  WithCell(WithColumn(Zeros(n, m), m - 1, col), n - 1, m - 1, SumSeq(col))

\* one pass of the loop of step 2 on the table A: column j, with row the
\* decremented current_table_row_with_mix (Python indices)
Step2Column(P, A, j, row) ==
    LET mix_j_amount == MixAmountNeeded(A, row)
        rows == RowsWritten(NRows(P), j, NRows(A))
    IN  WithCell(WithColumn(A, j, MixColumn(P, mix_j_amount, j, rows, A)),
                 row, j, mix_j_amount)

\* the loop of step 2 from column j down to column 0
RECURSIVE Step2Loop(_, _, _, _)
Step2Loop(P, A, j, current_table_row_with_mix) ==
    IF j < 0 THEN A
    ELSE Step2Loop(P, Step2Column(P, A, j, current_table_row_with_mix - 1),
                   j - 1, current_table_row_with_mix - 1)

\* _calculate_material_requirements run from its first statement to its
\* last with nothing else running: the table returned, << >> if it raises
CalculateAlone(P, target_amount) ==
    IF LastMixMatches(SumSeq(LastMixColumn(P, target_amount)), target_amount)
    THEN Step2Loop(P, Step1Table(P, target_amount), NCols(P) - 2, NRows(P) - 1)
    ELSE << >>

\* thread th calls calculateBOM(target_amount): np.zeros and step 1
ThreadStep1(th, target_amount) ==
    /\ script = "mrc_threads"
    /\ mrc.state = "constructed"
    /\ calls[th].pc = "idle"
    /\ \A other \in 1..(th - 1) : calls[other].pc # "idle"
    /\ \A other \in Threads \ {th} : calls[other].target_amount # target_amount
    /\ LET P == mrc.percentage_table
           a == NewArray(arrays)
           mix_m_total == SumSeq(LastMixColumn(P, target_amount))
       IN  IF LastMixMatches(mix_m_total, target_amount)
           THEN /\ arrays' = Stored(arrays, a, Step1Table(P, target_amount))
                /\ calls' = [calls EXCEPT ![th] =
                                [pc |-> "step2",
                                 target_amount |-> target_amount,
                                 target_table  |-> a,
                                 j |-> NCols(P) - 2,
                                 current_table_row_with_mix |-> NRows(P) - 1,
                                 raw_material_totals |-> << >>]]
           ELSE /\ arrays' = Stored(arrays, a,
                                    WithColumn(Zeros(NRows(P), NCols(P)), NCols(P) - 1,
                                               LastMixColumn(P, target_amount)))
                /\ calls' = [calls EXCEPT ![th] =
                                [NoCall EXCEPT !.pc = "ValueError",
                                               !.target_amount = target_amount]]
    /\ UNCHANGED <<script, input_table, mrc, frame, last_bom, prev_bom, mrp_vars>>

\* thread th runs one pass of the loop of step 2 on its array
ThreadStep2(th) ==
    /\ script = "mrc_threads"
    /\ calls[th].pc = "step2"
    /\ calls[th].j >= 0
    /\ LET c   == calls[th]
           row == c.current_table_row_with_mix - 1
       IN  /\ arrays' = Stored(arrays, c.target_table,
                               Step2Column(mrc.percentage_table,
                                           arrays[c.target_table], c.j, row))
           /\ calls' = [calls EXCEPT ![th].j = c.j - 1,
                                     ![th].current_table_row_with_mix = row]
    /\ UNCHANGED <<script, input_table, mrc, frame, last_bom, prev_bom, mrp_vars>>

\* the loop of thread th is over: target_table is returned to calculateBOM,
\* whose _get_results_string aggregates it
ThreadReturn(th) ==
    /\ script = "mrc_threads"
    /\ calls[th].pc = "step2"
    /\ calls[th].j < 0
    /\ calls' = [calls EXCEPT ![th].pc = "returned",
                              ![th].raw_material_totals =
                                  get_raw_material_totals(arrays[calls[th].target_table],
                                                          mrc.raw_material_count)]
    /\ UNCHANGED <<script, input_table, mrc, frame, last_bom, prev_bom, arrays, mrp_vars>>

(***************************************************************************)
(* Script "mrp": MaterialRequirementsPlanning                              *)
(***************************************************************************)
\* T_j of calculate_material_requirements: the loop over k in j+1 .. m-1 that
\* adds target_table[n+j, k] if n+j < target_table.shape[0]; j a Python index
MrpMixAmount(A, n, m, j) ==
    IF n + j < NRows(A)
    THEN SumSeq([k \in 1..(m - 1 - j) |-> A[n + j + 1][j + 1 + k]])
    ELSE 0

\* steps 1 and 2 of calculate_material_requirements, column by column from
\* Python column j down to 0, on the table A built so far
RECURSIVE MrpSweep(_, _, _)
MrpSweep(P, A, j) ==
    IF j < 0 THEN A
    ELSE LET n == NRows(P)
             m == NCols(P)
             mix_j_amount == MrpMixAmount(A, n, m, j)
             rows == RowsWritten(n, j, NRows(A))
             filled == WithColumn(A, j, MixColumn(P, mix_j_amount, j, rows, A))
             own == IF n + j < NRows(A)
                    THEN WithCell(filled, n + j, j, mix_j_amount)
                    ELSE filled
         IN  MrpSweep(P, own, j - 1)

MrpExplode(P, target_amount) ==
    LET n == NRows(P)
        m == NCols(P)
        step1 == WithColumn(Zeros(n, m), m - 1, LastMixColumn(P, target_amount))
    IN  MrpSweep(P, step1, m - 2)

MrpCreateExampleTable ==
    /\ script = "mrp"
    /\ mrp_frame.pc = "idle"
    /\ mrp' = [raw_materials_count |-> 5, mixes_count |-> 4,
               total_rows |-> 9, total_cols |-> 4]
    /\ mrp_ret' = [op |-> "create_example_table", target_amount |-> 0,
                   result |-> "table", value |-> ArticleTable]
    /\ UNCHANGED <<script, input_table, mrc_vars, mrp_frame, target_table>>

MrpCreateCustomTable(raw_materials, mixes) ==
    /\ script = "mrp"
    /\ mrp_frame.pc = "idle"
    /\ LET n == raw_materials + mixes
           m == mixes
       IN  /\ mrp' = [raw_materials_count |-> raw_materials, mixes_count |-> mixes,
                      total_rows |-> n, total_cols |-> m]
           /\ mrp_ret' = [op |-> "create_custom_table", target_amount |-> 0,
                          result |-> "table", value |-> Zeros(n, m)]
    /\ UNCHANGED <<script, input_table, mrc_vars, mrp_frame, target_table>>

MrpValidate ==
    /\ script = "mrp"
    /\ mrp_frame.pc = "idle"
    /\ mrp' = ShapeCounts(input_table)
    /\ mrp_ret' = [op |-> "validate_percentage_table", target_amount |-> 0,
                   result |-> IF validate_percentage_table(input_table)
                              THEN "True" ELSE "False",
                   value |-> << >>]
    /\ UNCHANGED <<script, input_table, mrc_vars, mrp_frame, target_table>>

\* calculate_material_requirements, its first statement: validate, and raise
\* ValueError if the table is rejected
MrpCalculateValidate(target_amount) ==
    /\ script = "mrp"
    /\ mrp_frame.pc = "idle"
    /\ mrp' = ShapeCounts(input_table)
    /\ IF RaisesInvalidTable(validate_percentage_table(input_table))
       THEN /\ mrp_ret' = [op |-> "calculate_material_requirements",
                           target_amount |-> target_amount,
                           result |-> "ValueError", value |-> << >>]
            /\ UNCHANGED mrp_frame
       ELSE /\ mrp_frame' = [pc |-> "validated", target_amount |-> target_amount]
            /\ UNCHANGED mrp_ret
    /\ UNCHANGED <<script, input_table, mrc_vars, target_table>>

\* calculate_material_requirements, the rest: allocate, steps 1 and 2, return
MrpCalculateExplode ==
    /\ script = "mrp"
    /\ mrp_frame.pc = "validated"
    /\ LET A == MrpExplode(input_table, mrp_frame.target_amount)
       IN  /\ target_table' = A
           /\ mrp_ret' = [op |-> "calculate_material_requirements",
                          target_amount |-> mrp_frame.target_amount,
                          result |-> "table", value |-> A]
    /\ mrp_frame' = MrpIdle
    /\ UNCHANGED <<script, input_table, mrc_vars, mrp>>

MrpGetRawMaterialTotals ==
    /\ script = "mrp"
    /\ mrp_frame.pc = "idle"
    /\ target_table # << >>
    /\ mrp_ret' = [op |-> "get_raw_material_totals", target_amount |-> 0,
                   result |-> "totals",
                   value |-> get_raw_material_totals(target_table, mrp.raw_materials_count)]
    /\ UNCHANGED <<script, input_table, mrc_vars, mrp, mrp_frame, target_table>>

Next ==
    \/ MrcConstruct
    \/ \E t \in Targets(input_table) : MrcStep1(t)
    \/ MrcStep2
    \/ MrcReturn
    \/ MrcResults
    \/ \E th \in Threads : \E t \in Targets(input_table) : ThreadStep1(th, t)
    \/ \E th \in Threads : ThreadStep2(th)
    \/ \E th \in Threads : ThreadReturn(th)
    \/ MrpCreateExampleTable
    \/ \E nm \in Shapes : MrpCreateCustomTable(nm[1] - nm[2], nm[2])
    \/ MrpValidate
    \/ \E t \in Targets(input_table) : MrpCalculateValidate(t)
    \/ MrpCalculateExplode
    \/ MrpGetRawMaterialTotals

Spec == Init /\ [][Next]_vars


(***************************************************************************)
(* Vocabulary of the properties                                            *)
(***************************************************************************)
\* Invariant A: every column's non-zero cells sum to 100 within 1e-6
InvariantA(P) == \A j \in 1..NCols(P) : Abs(NonZeroSum(P, j) - Hundred) <= ATol

\* the mix's own row of column j (both 1-based): Python row (n-m)+j
OwnRow(P, j) == NRows(P) - NCols(P) + j

\* Invariant B: column j is zero on the mix's own row and below it
InvariantB(P) ==
    \A j \in 1..NCols(P) : \A i \in OwnRow(P, j)..NRows(P) : P[i][j] = 0

ColumnSum(A, j) == SumSeq(Column(A, j))

\* sum of column j over the rows above row r
ColumnSumAbove(A, j, r) == SumSeq([i \in 1..(r - 1) |-> A[i][j]])

\* required[j]: the cell of column j on the mix's own row
Required(A, j) == A[OwnRow(A, j)][j]

\* the anchor sum of step 1: sum over the rows of target_amount * P[i,m-1] / 100
AnchorSum(P, target_amount) ==
    SumSeq([i \in 1..NRows(P) |-> MulPctExact(target_amount, P[i][NCols(P)])])

(***************************************************************************)
(* C1                                                                      *)
(***************************************************************************)
\* C1: a validator accepts a table if and only if every column's non-zero
\* cells sum to 100 within 1e-6 absolute; this holds of
\* validate_percentage_table (mrp) and of _validate_percentage_table (the
\* reader, whose rejection makes the construction of the mrc object fail).
C1_AcceptsIffWithin1e6 ==
    /\ (mrp_ret.op = "validate_percentage_table")
          => ((mrp_ret.result = "True") <=> InvariantA(input_table))
    /\ (script = "mrc" /\ mrc.state # "new")
          => ((mrc.state = "constructed") <=> InvariantA(input_table))

(***************************************************************************)
(* C2                                                                      *)
(***************************************************************************)
\* C2: validation precedes the explosion.  While the validator rejects the
\* table no quantity table is allocated, no cell is computed and none is
\* returned: the mrc object is never constructed, so no call of
\* _calculate_material_requirements runs or finishes, and
\* calculate_material_requirements of mrp ends in ValueError without a table.
C2_ValidationPrecedesExplosion ==
    LET off_by_5 == \E j \in 1..NCols(input_table) :
                       Abs(NonZeroSum(input_table, j) - Hundred) = 5 * Unit
        rejected == IF script = "mrc"
                    THEN ~ _validate_percentage_table(input_table)
                    ELSE ~ validate_percentage_table(input_table)
    IN  /\ off_by_5 => rejected
        /\ (script = "mrc" /\ rejected)
              => /\ mrc.state \in {"new", "failed"}
                 /\ frame = IdleFrame
                 /\ last_bom = NoBom
                 /\ prev_bom = NoBom
        /\ (script = "mrc" /\ mrc.state # "constructed")
              => (frame = IdleFrame /\ last_bom = NoBom /\ prev_bom = NoBom)
        /\ (script = "mrp" /\ rejected)
              => /\ mrp_frame = MrpIdle
                 /\ target_table = << >>
                 /\ (mrp_ret.op = "calculate_material_requirements")
                       => (mrp_ret.result = "ValueError" /\ mrp_ret.value = << >>)

\* a table with a column that sums to 95 was read and the construction failed
C2_Witness ==
    /\ script = "mrc"
    /\ mrc.state = "failed"
    /\ \E j \in 1..NCols(input_table) : NonZeroSum(input_table, j) = 95 * Unit
    /\ frame = IdleFrame


(***************************************************************************)
(* C3                                                                      *)
(***************************************************************************)
\* C3 as stated: for an accepted table and a target T > 0, the final column
\* of the quantity table returned by _calculate_material_requirements sums
\* over all its rows to T within 1e-6.
C3_FinalColumnSumsToT ==
    (last_bom.status = "ok" /\ last_bom.target_amount > 0)
       => Abs(ColumnSum(last_bom.target_table, NCols(last_bom.target_table))
              - last_bom.target_amount) <= ATol

\* C3 amended: when the final mix does not list itself as an ingredient
\* (P[n-1,m-1] = 0, invariant B), the cells of the final column above the
\* mix's own cell sum to T within 1e-6, the own cell A[n-1,m-1] holds T, and
\* so the whole final column sums to 2T.
C3_FinalColumnIngredientsSumToT ==
    (last_bom.status = "ok" /\ last_bom.target_amount > 0)
       => LET A == last_bom.target_table
              T == last_bom.target_amount
              n == NRows(A)
              m == NCols(A)
          IN  mrc.percentage_table[n][m] = 0
                 => /\ Abs(ColumnSumAbove(A, m, n) - T) <= ATol
                    /\ A[n][m] = T
                    /\ Abs(ColumnSum(A, m) - 2 * T) <= ATol

\* a run for T > 0 returned a table whose final column sums to 2T
C3_Witness ==
    /\ last_bom.status = "ok"
    /\ last_bom.target_amount > 0
    /\ mrc.percentage_table[NRows(input_table)][NCols(input_table)] = 0
    /\ ColumnSum(last_bom.target_table, NCols(input_table)) = 2 * last_bom.target_amount
    /\ ColumnSumAbove(last_bom.target_table, NCols(input_table), NRows(input_table))
          = last_bom.target_amount


(***************************************************************************)
(* C4                                                                      *)
(***************************************************************************)
\* A[i,j] / required[j] = P[i,j] / 100 up to the tolerance: the quantity is
\* within 1e-6 of required[j] * P[i,j] / 100
Proportional(A, P, i, j) ==
    Abs(A[i][j] - MulPctExact(Required(A, j), P[i][j])) <= ATol

\* C4 as stated: in the returned quantity table, for every column j and
\* every row i up to and including the mix's own row ((n-m)+j),
\* A[i,j] / required[j] equals P[i,j] / 100 whenever required[j] > 0.
C4_ProportionalUpToOwnRow ==
    (last_bom.status = "ok")
       => LET A == last_bom.target_table
              P == mrc.percentage_table
          IN  \A j \in 1..NCols(A) :
                 (Required(A, j) > 0)
                    => \A i \in 1..OwnRow(A, j) : Proportional(A, P, i, j)

\* C4 amended: the same for every row i above the mix's own row
\* (i < (n-m)+j); the own row holds required[j] itself.
C4_ProportionalAboveOwnRow ==
    (last_bom.status = "ok")
       => LET A == last_bom.target_table
              P == mrc.percentage_table
          IN  \A j \in 1..NCols(A) :
                 (Required(A, j) > 0)
                    => \A i \in 1..(OwnRow(A, j) - 1) : Proportional(A, P, i, j)

\* a returned table in which a mix before the last is required and consumes
\* a share of an ingredient that is neither nothing nor everything
C4_Witness ==
    /\ last_bom.status = "ok"
    /\ \E j \in 1..(NCols(input_table) - 1) :
          /\ Required(last_bom.target_table, j) > 0
          /\ \E i \in 1..(OwnRow(input_table, j) - 1) :
                /\ input_table[i][j] > 0
                /\ input_table[i][j] < Hundred
                /\ last_bom.target_table[i][j] > 0
                /\ last_bom.target_table[i][j] < Required(last_bom.target_table, j)


(***************************************************************************)
(* C5                                                                      *)
(***************************************************************************)
\* the later of two finished runs asked for k times the target of the earlier
ScaledBy(k) ==
    /\ prev_bom.status = "ok"
    /\ last_bom.status # "none"
    /\ prev_bom.target_amount > 0
    /\ last_bom.target_amount % prev_bom.target_amount = 0
    /\ last_bom.target_amount \div prev_bom.target_amount = k

\* every cell of the later table is k times the cell of the earlier one
CellsScaledBy(k) ==
    LET A == prev_bom.target_table
        B == last_bom.target_table
    IN  \A i \in 1..NRows(A) : \A j \in 1..NCols(A) :
           Abs(B[i][j] - k * A[i][j]) <= ATol

ScaleFactors == 1..(ArticleTarget \div Unit)

\* C5: linearity.  When a run with target T succeeded, the run with target
\* k*T (k > 0) on the same table succeeds as well, and every cell of its
\* table, the required quantities included, is k times the cell for T.
C5_Linearity ==
    \A k \in ScaleFactors :
       ScaledBy(k) => (last_bom.status = "ok" /\ CellsScaledBy(k))


(***************************************************************************)
(* C6                                                                      *)
(***************************************************************************)
\* the row sums of the raw-material rows 0 .. n-m-1 of an n x m table
RawRowSums(A) ==
    [i \in 1..(NRows(A) - NCols(A)) |-> SumSeq([j \in 1..NCols(A) |-> A[i][j]])]

\* C6: get_raw_material_totals(A), for the n x m quantity table A returned by
\* an explosion, is the vector of length n - m whose i-th entry is the sum
\* over all columns j of A[i,j]; no mix row contributes.  (Both classes.)
C6_RawMaterialTotals ==
    /\ (last_bom.status = "ok")
          => last_bom.raw_material_totals = RawRowSums(last_bom.target_table)
    /\ (mrp_ret.op = "get_raw_material_totals")
          => mrp_ret.value = RawRowSums(target_table)


(***************************************************************************)
(* C7                                                                      *)
(***************************************************************************)
\* C7: step 1 fails with the target-mismatch error if and only if the anchor
\* sum S = sum over the rows of target_amount * P[i,m-1] / 100 differs from
\* target_amount by more than 1e-6; so it never fails on a table the
\* validator accepted (one whose columns sum to 100 within 1e-6); and when it
\* fails no quantity table is returned.
C7_TargetMismatchIffBeyond1e6 ==
    (script = "mrc" /\ last_bom.status # "none")
       => LET S == AnchorSum(mrc.percentage_table, last_bom.target_amount)
              failed == last_bom.status = "ValueError"
          IN  /\ failed <=> (Abs(S - last_bom.target_amount) > ATol)
              /\ InvariantA(mrc.percentage_table) => ~ failed
              /\ failed => (last_bom.target_table = << >>
                            /\ last_bom.raw_material_totals = << >>)

(***************************************************************************)
(* C8                                                                      *)
(***************************************************************************)
\* the explosion of the article table for the target 1000 has returned
ArticleRunDone ==
    /\ script = "mrc"
    /\ input_table = ArticleTable
    /\ last_bom.status = "ok"
    /\ last_bom.target_amount = ArticleTarget

\* C8 as stated: exploding the 9 x 4 article table with target 1000 yields a
\* table whose Mix4 column sums to 1000, whose Mix3 required quantity is 200
\* and whose Mix2 required quantity is 180.
C8_ArticleExampleAsStated ==
    ArticleRunDone
       => /\ ColumnSum(last_bom.target_table, 4) = 1000 * Unit
          /\ Required(last_bom.target_table, 3) = 200 * Unit
          /\ Required(last_bom.target_table, 2) = 180 * Unit

\* C8 amended: the ingredient cells of the Mix4 column sum to 1000 and its
\* own cell holds 1000 (the column sums to 2000), the Mix3 required quantity
\* is 200 and the Mix2 required quantity is 150.
C8_ArticleExample ==
    ArticleRunDone
       => /\ ColumnSumAbove(last_bom.target_table, 4, 9) = 1000 * Unit
          /\ last_bom.target_table[9][4] = 1000 * Unit
          /\ ColumnSum(last_bom.target_table, 4) = 2000 * Unit
          /\ Required(last_bom.target_table, 3) = 200 * Unit
          /\ Required(last_bom.target_table, 2) = 150 * Unit

\* the article table was exploded for 1000 and Mix2 is needed 50 + 100 times
C8_Witness ==
    /\ ArticleRunDone
    /\ last_bom.target_table[7][3] = 50 * Unit
    /\ last_bom.target_table[7][4] = 100 * Unit

(***************************************************************************)
(* C9                                                                      *)
(***************************************************************************)
\* sum over the columns k > j of the cells of row r
RowSumAfter(A, r, j) == SumSeq([k \in 1..(NCols(A) - j) |-> A[r][j + k]])

\* C9: for a table satisfying invariants A and B and a target T on which
\* _calculate_material_requirements succeeds, the own cell of every mix j
\* holds required[j], where required[m-1] = T and, for j < m-1, required[j]
\* is the sum over the columns k > j of A[(n-m)+j, k]; every cell of column j
\* above the own row equals required[j] * P[i,j] / 100.  For the article
\* table and T = 1000 the columns are those main verifies (required 280,
\* 150, 200, 1000).
C9_RequiredBookkeeping ==
    /\ (last_bom.status = "ok" /\ InvariantA(input_table) /\ InvariantB(input_table))
          => LET A == last_bom.target_table
                 P == input_table
                 m == NCols(A)
             IN  /\ A[OwnRow(A, m)][m] = last_bom.target_amount
                 /\ \A j \in 1..(m - 1) :
                       A[OwnRow(A, j)][j] = RowSumAfter(A, OwnRow(A, j), j)
                 /\ \A j \in 1..m : \A i \in 1..(OwnRow(A, j) - 1) :
                       A[i][j] = MulPctExact(A[OwnRow(A, j)][j], P[i][j])
    /\ ArticleRunDone
          => /\ \A j \in 1..4 : MatchesArticle(last_bom.target_table, j)
             /\ Required(last_bom.target_table, 1) = 280 * Unit
             /\ Required(last_bom.target_table, 2) = 150 * Unit
             /\ Required(last_bom.target_table, 3) = 200 * Unit
             /\ Required(last_bom.target_table, 4) = 1000 * Unit

\* a run succeeded on a table with invariants A and B in which an earlier
\* mix is an ingredient of two later mixes
C9_Witness ==
    /\ last_bom.status = "ok"
    /\ InvariantA(input_table)
    /\ InvariantB(input_table)
    /\ \E j \in 1..(NCols(input_table) - 2) :
          /\ last_bom.target_table[OwnRow(input_table, j)][j + 1] > 0
          /\ last_bom.target_table[OwnRow(input_table, j)][j + 2] > 0
          /\ Required(last_bom.target_table, j)
                > last_bom.target_table[OwnRow(input_table, j)][j + 1]

(***************************************************************************)
(* C10                                                                     *)
(***************************************************************************)
\* C10: calculate_material_requirements of mrp does the same backward sweep:
\* for every column j from m-2 down to 0, mix_j_amount is the sum of the cells
\* of mix j's own row in the columns k > j, column j holds
\* mix_j_amount * P[i,j] / 100 and mix j's own row of column j holds
\* mix_j_amount; for the article table and 1000 it returns the columns main
\* verifies (Mix 3 needed 200, Mix 2 needed 150, Mix 1 needed 280).
C10_PlanningSweep ==
    (mrp_ret.op = "calculate_material_requirements" /\ mrp_ret.result = "table")
       => LET A == mrp_ret.value
              P == input_table
          IN  /\ \A j \in 1..(NCols(A) - 1) :
                    LET mix_j_amount == RowSumAfter(A, OwnRow(A, j), j)
                    IN  /\ A[OwnRow(A, j)][j] = mix_j_amount
                        /\ \A i \in 1..(OwnRow(A, j) - 1) :
                              A[i][j] = MulPctExact(mix_j_amount, P[i][j])
              /\ (P = ArticleTable /\ mrp_ret.target_amount = ArticleTarget)
                    => /\ \A j \in 1..3 : MatchesArticle(A, j)
                       /\ A[8][3] = 200 * Unit
                       /\ A[7][2] = 150 * Unit
                       /\ A[6][1] = 280 * Unit

(***************************************************************************)
(* C11                                                                     *)
(***************************************************************************)
\* column j of A is zero on every row below the mix's own row
ZeroBelowOwnRow(A, j) == \A i \in (OwnRow(A, j) + 1)..NRows(A) : A[i][j] = 0

\* C11: precedence bound of step 2.  For every table the validator accepted
\* and every column j before the last, the explosion writes A[i,j] only for
\* the rows i <= (n-m)+j, so in the returned quantity table A[i,j] = 0 for
\* every row i > (n-m)+j: no mix is reported as consuming a mix defined
\* after it.  (Both classes.)
C11_PrecedenceBound ==
    /\ (last_bom.status = "ok")
          => \A j \in 1..(NCols(last_bom.target_table) - 1) :
                ZeroBelowOwnRow(last_bom.target_table, j)
    /\ (mrp_ret.op = "calculate_material_requirements" /\ mrp_ret.result = "table")
          => \A j \in 1..(NCols(mrp_ret.value) - 1) :
                ZeroBelowOwnRow(mrp_ret.value, j)

(***************************************************************************)
(* C12                                                                     *)
(***************************************************************************)
\* a step leaves every cell of the percentage table as it was: the caller's
\* array, and the table the object got from the reader, which is the table
\* of the product file
TableReadOnly ==
    /\ input_table' = input_table
    /\ (mrc.state = "constructed") => (mrc'.percentage_table = mrc.percentage_table)
    /\ (mrc'.state = "constructed") => (mrc'.percentage_table = input_table')

\* no two calls work in the same array
OwnArrays ==
    \A th \in Threads : \A other \in Threads \ {th} :
       (calls[th].target_table # 0) => (calls[th].target_table # calls[other].target_table)

\* every finished call of a thread ended as the call alone would have
\* ended, and its array holds the table the call alone would have returned
ThreadsAsAlone ==
    \A th \in Threads :
       LET c     == calls[th]
           alone == CalculateAlone(mrc.percentage_table, c.target_amount)
       IN  /\ (c.pc = "returned")
                 => /\ arrays[c.target_table] = alone
                    /\ c.raw_material_totals = RawRowSums(alone)
           /\ (c.pc = "ValueError") => (alone = << >>)

\* the same for the latest two calls made one after the other
SequenceAsAlone ==
    \A bom \in {prev_bom, last_bom} :
       LET alone == CalculateAlone(mrc.percentage_table, bom.target_amount)
       IN  /\ (bom.status = "ok") => (bom.target_table = alone)
           /\ (bom.status = "ValueError") => (alone = << >>)

\* a step leaves the array of every call that has returned as it was
ReturnedNotAltered ==
    \A th \in Threads :
       (calls[th].pc = "returned")
          => /\ calls'[th] = calls[th]
             /\ arrays'[calls[th].target_table] = arrays[calls[th].target_table]

\* C12: read-only table and independent runs.  Validation, explosion and
\* aggregation never change a cell of the percentage table P, and every
\* explosion call allocates its own quantity table; so in any sequence or
\* interleaving of explosion runs over the same P with different target
\* amounts every run returns exactly the table it would return if run
\* alone, and a table returned by an earlier run is not altered by a later
\* run.
C12_ReadOnlyTableIndependentRuns ==
    /\ [](OwnArrays /\ ThreadsAsAlone /\ SequenceAsAlone)
    /\ [][TableReadOnly /\ ReturnedNotAltered]_vars

\* two runs with different targets overlapped: one thread has returned its
\* table, with a mix before the last required, while the other thread, which
\* allocated its table first, is still inside the loop of step 2
C12_Witness ==
    \E th \in Threads : \E other \in Threads \ {th} :
       /\ calls[th].pc = "returned"
       /\ calls[other].pc = "step2"
       /\ calls[other].j < NCols(input_table) - 2
       /\ calls[other].target_table < calls[th].target_table
       /\ calls[th].target_amount # calls[other].target_amount
       /\ arrays[calls[th].target_table][OwnRow(input_table, 1)][1] > 0
       /\ arrays[calls[th].target_table] # arrays[calls[other].target_table]

(***************************************************************************)
(* C13                                                                     *)
(***************************************************************************)
\* C13: the aggregator of MaterialRequirementsPlanning is a pure function
\* of its argument.  Whatever calls were made on the object before
\* (validate_percentage_table, calculate_material_requirements,
\* create_example_table, create_custom_table), get_raw_material_totals(A)
\* for an n x m quantity table A returns the row sums of the first n - m
\* rows of A, a vector of length n - m.
C13_AggregatorPure ==
    (mrp_ret.op = "get_raw_material_totals")
       => LET A == target_table
          IN  /\ Len(mrp_ret.value) = NRows(A) - NCols(A)
              /\ \A i \in 1..(NRows(A) - NCols(A)) : mrp_ret.value[i] = SumSeq(A[i])

(***************************************************************************)
(* C14                                                                     *)
(***************************************************************************)
\* Invariant A exactly: every column's non-zero cells sum to exactly 100
InvariantAExact(P) == \A j \in 1..NCols(P) : NonZeroSum(P, j) = Hundred

\* every cell is a percentage between 0 and 100
InRange(P) ==
    \A i \in 1..NRows(P) : \A j \in 1..NCols(P) : P[i][j] >= 0 /\ P[i][j] <= Hundred

\* a call of calculateBOM with a target T > 0 has returned on a table with
\* invariant A exactly and invariant B
BalancedRunDone ==
    /\ last_bom.status = "ok"
    /\ last_bom.target_amount > 0
    /\ InvariantAExact(mrc.percentage_table)
    /\ InvariantB(mrc.percentage_table)

\* np.sum(raw_material_totals) of _get_results_string
TotalRawMaterials == SumSeq(last_bom.raw_material_totals)

\* C14 as stated: mass balance.  For every table with invariant A exactly
\* and invariant B and every target T > 0, the entries of the raw material
\* totals computed from the table _calculate_material_requirements returned
\* sum to T.
C14_MassBalanceExact ==
    BalancedRunDone => (TotalRawMaterials = last_bom.target_amount)

\* C14 amended: when moreover every cell of the table is within 0..100, the
\* entries sum to T up to the rounding of the cell computations, within a
\* relative error of 1e-6: |sum - T| <= 1e-6 * T.
C14_MassBalance ==
    (BalancedRunDone /\ InRange(mrc.percentage_table))
       => Abs(TotalRawMaterials - last_bom.target_amount)
             <= ATol * (last_bom.target_amount \div Unit)

\* a run returned on such a table in which the final mix consumes an
\* earlier mix and raw materials directly, and the totals sum to T
C14_Witness ==
    /\ BalancedRunDone
    /\ InRange(mrc.percentage_table)
    /\ NCols(input_table) >= 2
    /\ \E i \in 1..(NRows(input_table) - NCols(input_table)) :
          last_bom.target_table[i][NCols(input_table)] > 0
    /\ \E i \in 1..(NRows(input_table) - NCols(input_table)) :
          last_bom.target_table[i][1] > 0
    /\ Len(last_bom.raw_material_totals) = NRows(input_table) - NCols(input_table)
    /\ TotalRawMaterials = last_bom.target_amount

(***************************************************************************)
(* C15                                                                     *)
(***************************************************************************)
\* no cell of the table A and no entry of the totals is negative
NonNegative(A, totals) ==
    /\ \A i \in 1..Len(A) : \A j \in 1..Len(A[i]) : A[i][j] >= 0
    /\ \A i \in 1..Len(totals) : totals[i] >= 0

\* every cell is within 0..100, a cell that the validator's comparison takes
\* for 100 counting as 100
InRangeClose(P) ==
    \A i \in 1..NRows(P) : \A j \in 1..NCols(P) :
       /\ P[i][j] >= 0
       /\ (P[i][j] <= Hundred \/ isclose(P[i][j], Hundred, ATol))

\* C15: percentage range and non-negative quantities.  Every table a
\* validator accepted has all its cells within 0..100, and hence for every
\* accepted table and target T > 0 every cell of the quantity table the
\* explosion returned and every entry of the raw material totals is >= 0.
\* (Both validators, both explosions, both aggregators.)
C15_RangeAndNonNegative ==
    /\ (mrc.state = "constructed") => InRangeClose(mrc.percentage_table)
    /\ (mrp_ret.op = "validate_percentage_table" /\ mrp_ret.result = "True")
          => InRangeClose(input_table)
    /\ (mrp_ret.op = "calculate_material_requirements" /\ mrp_ret.result = "table")
          => (InRangeClose(input_table) /\ NonNegative(mrp_ret.value, << >>))
    /\ (last_bom.status = "ok" /\ last_bom.target_amount > 0)
          => NonNegative(last_bom.target_table, last_bom.raw_material_totals)
    /\ (mrp_ret.op = "get_raw_material_totals")
          => NonNegative(target_table, mrp_ret.value)
    /\ \A th \in Threads :
          (calls[th].pc = "returned")
             => NonNegative(arrays[calls[th].target_table], calls[th].raw_material_totals)

=============================================================================
